---- MODULE Spec2Model ----
(***************************************************************************)
(* Model of autogluon.common.utils.cuml_accel_utils (the per-module cuML   *)
(* activation registry) and of the demo command demo-cuml-accel.py.        *)
(*                                                                         *)
(* Strings are sequences of one-character strings, so that str.replace is  *)
(* computed on characters as Python computes it.  Python sets are objects  *)
(* on a heap addressed by references, so that "returns a copy" and         *)
(* "returns the same object" are different models.                         *)
(***************************************************************************)
EXTENDS Integers, Sequences, FiniteSets, TLC

VARIABLES
    heap,           \* set objects: reference -> set of module names
    _accelerator,   \* dict module name -> Accelerator handle
    accels,         \* live Accelerator objects: handle -> [registered, installed]
    held,           \* references to sets the caller got from get_activated_modules
    last,           \* the most recent call: operation, argument, result, external calls
    pre,            \* registry and history as they were before the most recent call
    hist,           \* history of the activation calls made so far
    demo,           \* the demo command's run
    threads,        \* concurrent callers: position and locals of each thread's call
    race,           \* the writes to _accelerator and the register calls, per module name
    lifecycle       \* per module name, the outcome of the activation calls made for it

vars == <<heap, _accelerator, accels, held, last, pre, hist, demo, threads, race,
          lifecycle>>

(***************************************************************************)
(* Bounds                                                                  *)
(***************************************************************************)
\* number of sets a caller obtains from get_activated_modules
MaxSnapshots == 1
\* largest --num-gpus value given to the demo
MaxGpus == 2
\* number of activation calls each concurrent thread makes
MaxThreadCalls == 2

(***************************************************************************)
(* Strings                                                                 *)
(***************************************************************************)
sklearn == <<"s", "k", "l", "e", "a", "r", "n">>

cuml_accel_wrappers ==
    <<"c", "u", "m", "l", ".", "a", "c", "c", "e", "l", ".",
      "_", "w", "r", "a", "p", "p", "e", "r", "s", ".">>

wrappers_sklearn == cuml_accel_wrappers \o sklearn

\* the first dotted component of a module name
RECURSIVE FirstComponent(_)
FirstComponent(s) ==
    IF s = <<>> \/ s[1] = "." THEN <<>> ELSE <<s[1]>> \o FirstComponent(Tail(s))

\* s.startswith(p)
StartsWith(s, p) == Len(s) >= Len(p) /\ SubSeq(s, 1, Len(p)) = p

\* Python's s.replace(old, new) for a non-empty old: every non-overlapping
\* occurrence of old, scanning from the left, is replaced by new.
RECURSIVE str_replace(_, _, _)
str_replace(s, old, new) ==
    IF Len(s) < Len(old) THEN s
    ELSE IF StartsWith(s, old)
         THEN new \o str_replace(SubSeq(s, Len(old) + 1, Len(s)), old, new)
         ELSE <<s[1]>> \o str_replace(Tail(s), old, new)

\* the module names the callers pass
ModuleNames == {"sklearn.svm", "sklearn.sklearn", "xgb"}

\* the characters of a module name
Chars(name) ==
    CASE name = "sklearn.svm" -> sklearn \o <<".", "s", "v", "m">>
      [] name = "sklearn.sklearn" -> sklearn \o <<".">> \o sklearn
      [] name = "xgb" -> <<"x", "g", "b">>

(***************************************************************************)
(* The external library: what each of its entry points does in one call    *)
(***************************************************************************)
\* `import cuml.accel`
AccelImportOutcomes == {"ok", "ImportError", "Exception"}
\* the component imports, Accelerator(...), register(...) and install()
CallOutcomes == {"ok", "Exception"}

\* One call of activate_cuml_accel_for_module ends at the first external step
\* that raises, so the behaviours of the library during one call are: every
\* step succeeds, or exactly one step raises.
Envs ==
    { e \in [accel_import : AccelImportOutcomes,
             imports      : CallOutcomes,
             construct    : CallOutcomes,
             register     : CallOutcomes,
             install      : CallOutcomes] :
        Cardinality({f \in DOMAIN e : e[f] # "ok"}) <= 1 }

(***************************************************************************)
(* The registry                                                            *)
(***************************************************************************)
\* the set object the module global _activated_modules is bound to
ActivatedRef == 0

_activated_modules == heap[ActivatedRef]

NoName == "none"
NoChars == <<>>
NoRef == -1
\* the library is not consulted
NoEnv == [accel_import |-> "none", imports |-> "none", construct |-> "none",
          register |-> "none", install |-> "none"]

ExtCall(call, handle, module, wrapper) ==
    [call |-> call, handle |-> handle, module |-> module, wrapper |-> wrapper]

\* is_cuml_accel_available: "True", "False", or "raise" when the import
\* raises something that is not an ImportError
is_cuml_accel_available_inverted(outcome) ==
    CASE outcome = "ok" -> "False"
      [] outcome = "ImportError" -> "True"
      [] OTHER -> "raise"

is_cuml_accel_available(outcome) ==
    CASE outcome = "ok" -> "True"
      [] outcome = "ImportError" -> "False"
      [] OTHER -> "raise"

\* is_module_accelerated
is_module_accelerated_any(module_name) == _activated_modules # {}

is_module_accelerated(module_name) == module_name \in _activated_modules

\* the membership test that opens activate_cuml_accel_for_module
AlreadyActiveNever(module_name, activated) == FALSE

AlreadyActive(module_name, activated) == module_name \in activated

\* module_name.replace("sklearn", "cuml.accel._wrappers.sklearn"), tabulated
\* over the module names
Replaced == [m \in ModuleNames |-> str_replace(Chars(m), sklearn, wrappers_sklearn)]

\* the wrapper module name handed to register
wrapper_module(module_name) == Replaced[module_name]

\* the handle of the Accelerator a call constructs
NewHandleShared(objs) == 1

NewHandle(objs) == CHOOSE h \in 1..(Cardinality(DOMAIN objs) + 1) : h \notin DOMAIN objs

\* the external calls the try block makes, in order, up to the first that raises
TryCalls(module_name, h, env) ==
    IF env.imports # "ok" THEN <<>>
    ELSE <<ExtCall("Accelerator", h, NoName, NoChars)>> \o
         (IF env.construct # "ok" THEN <<>>
          ELSE <<ExtCall("register", h, module_name, wrapper_module(module_name))>> \o
               (IF env.register # "ok" THEN <<>>
                ELSE <<ExtCall("install", h, NoName, NoChars)>>))

\* the try block runs to its return True
TryCompletes(env) ==
    /\ env.imports = "ok"
    /\ env.construct = "ok"
    /\ env.register = "ok"
    /\ env.install = "ok"

\* accelerator[module_name] = h
DictSetKeepFirst(accelerator, module_name, h) ==
    [n \in DOMAIN accelerator \cup {module_name} |->
        IF n \in DOMAIN accelerator THEN accelerator[n] ELSE h]

DictSet(accelerator, module_name, h) ==
    [n \in DOMAIN accelerator \cup {module_name} |->
        IF n = module_name THEN h ELSE accelerator[n]]

\* the two statements that record an activation, reached when the try block
\* got past install
RecordHandleEarly(module_name, h, completed, activated, accelerator) ==
    [activated   |-> IF completed THEN activated \cup {module_name} ELSE activated,
     accelerator |-> DictSet(accelerator, module_name, h)]

RecordNameEarly(module_name, h, completed, activated, accelerator) ==
    [activated   |-> activated \cup {module_name},
     accelerator |-> IF completed THEN DictSet(accelerator, module_name, h)
                     ELSE accelerator]

RecordReplace(module_name, h, completed, activated, accelerator) ==
    IF completed
    THEN [activated   |-> {module_name},
          accelerator |-> DictSet(accelerator, module_name, h)]
    ELSE [activated |-> activated, accelerator |-> accelerator]

Record(module_name, h, completed, activated, accelerator) ==
    IF completed
    THEN [activated   |-> activated \cup {module_name},
          accelerator |-> DictSet(accelerator, module_name, h)]
    ELSE [activated |-> activated, accelerator |-> accelerator]

\* the whole of activate_cuml_accel_for_module as a function of the registry
\* and of what the external library does during the call
ActivateOutcome(module_name, env, activated, accelerator, objs) ==
    LET same == [result |-> "True", ext |-> <<>>, activated |-> activated,
                 accelerator |-> accelerator, objs |-> objs]
        avail == is_cuml_accel_available(env.accel_import)
        h == NewHandle(objs)
        rec == Record(module_name, h, TryCompletes(env), activated, accelerator)
    IN  IF AlreadyActive(module_name, activated) THEN same
        ELSE IF avail = "raise" THEN [same EXCEPT !.result = "raise"]
        ELSE IF avail = "False" THEN [same EXCEPT !.result = "False"]
        ELSE [result      |-> IF TryCompletes(env) THEN "True" ELSE "False",
              ext         |-> TryCalls(module_name, h, env),
              activated   |-> rec.activated,
              accelerator |-> rec.accelerator,
              objs        |-> IF h \in {rec.accelerator[n] : n \in DOMAIN rec.accelerator}
                              THEN [o \in DOMAIN objs \cup {h} |->
                                       IF o = h
                                       THEN [registered |->
                                                IF env.construct = "ok" /\ env.register = "ok"
                                                THEN {<<module_name, wrapper_module(module_name)>>}
                                                ELSE {},
                                             installed |-> TryCompletes(env)]
                                       ELSE objs[o]]
                              ELSE objs]

Pre == [heap |-> heap, accelerator |-> _accelerator,
        called |-> hist.called, returnedTrue |-> hist.returnedTrue,
        lifecycle |-> lifecycle]

\* the state of a module name after a call of activate_cuml_accel_for_module
\* for it: the call returned True, returned False at the availability check,
\* or returned False from the except clause; a call that raises records nothing
StateAfter(state, result, env) ==
    CASE result = "True" -> "checked-active"
      [] result = "False" /\ env.accel_import = "ImportError" -> "checked-unavailable"
      [] result = "False" -> "checked-failed"
      [] OTHER -> state

\* the demo process before it is started
DemoIdle == [pc |-> "idle", entry |-> "none", model |-> "none", num_gpus |-> 0,
             profile |-> FALSE, profiling |-> FALSE, entered |-> FALSE,
             calls |-> <<>>, outcome |-> "none"]

\* the threads that call into the module
Threads == {"t1", "t2"}

\* a thread that is not inside a call
ThreadIdle == [pc |-> "idle", module_name |-> NoName, accelerator |-> 0,
               result |-> "none", calls |-> 0, passed |-> FALSE]

Init ==
    /\ heap = [r \in {ActivatedRef} |-> {}]
    /\ _accelerator = [n \in {} |-> 0]
    /\ accels = [o \in {} |-> 0]
    /\ held = {}
    /\ last = [op |-> "init", arg |-> NoName, result |-> "none", ref |-> NoRef, ext |-> <<>>,
               env |-> NoEnv]
    /\ hist = [called |-> {}, returnedTrue |-> {}, installed |-> {}]
    /\ pre = [heap |-> [r \in {ActivatedRef} |-> {}], accelerator |-> [n \in {} |-> 0],
              called |-> {}, returnedTrue |-> {},
              lifecycle |-> [m \in ModuleNames |-> "unchecked"]]
    /\ demo = DemoIdle
    /\ threads = [t \in Threads |-> ThreadIdle]
    /\ race = [writes |-> [m \in ModuleNames |-> <<>>],
               registers |-> [m \in ModuleNames |-> 0]]
    /\ lifecycle = [m \in ModuleNames |-> "unchecked"]

\* activate_cuml_accel_for_module(module_name), the library behaving as env
activate_cuml_accel_for_module(module_name, env) ==
    LET out == ActivateOutcome(module_name, env, _activated_modules, _accelerator, accels)
    IN  /\ heap' = [heap EXCEPT ![ActivatedRef] = out.activated]
        /\ _accelerator' = out.accelerator
        /\ accels' = out.objs
        /\ last' = [op |-> "activate", arg |-> module_name, result |-> out.result,
                    ref |-> NoRef, ext |-> out.ext, env |-> env]
        /\ pre' = Pre
        /\ hist' = [called |-> hist.called \cup {module_name},
                    returnedTrue |-> hist.returnedTrue \cup
                        (IF out.result = "True" THEN {module_name} ELSE {}),
                    installed |-> hist.installed \cup
                        (IF /\ out.result = "True"
                            /\ \E i \in DOMAIN out.ext : out.ext[i].call = "install"
                            /\ env.install = "ok"
                         THEN {module_name} ELSE {})]
        /\ UNCHANGED <<held, demo, threads, race>>

Activate ==
    \E m \in ModuleNames, env \in Envs :
        activate_cuml_accel_for_module(m, env) /\ UNCHANGED lifecycle

\* the same call, with the module name's outcome kept
ActivateTracked ==
    \E m \in ModuleNames, env \in Envs :
        /\ activate_cuml_accel_for_module(m, env)
        /\ lifecycle' = [lifecycle EXCEPT ![m] = StateAfter(@, last'.result, env)]

\* is_module_accelerated(module_name), called
IsModuleAccelerated(module_name) ==
    /\ last' = [op |-> "is_module_accelerated", arg |-> module_name,
                result |-> IF is_module_accelerated(module_name) THEN "True" ELSE "False",
                ref |-> NoRef, ext |-> <<>>, env |-> NoEnv]
    /\ pre' = Pre
    /\ UNCHANGED <<heap, _accelerator, accels, held, hist, demo, threads, race, lifecycle>>

\* set.copy(): a new set object with the members of the object at src
set_alias(h, src) == [heap |-> h, ref |-> src]

set_copy(h, src) ==
    LET r == CHOOSE x \in 1..(Cardinality(DOMAIN h) + 1) : x \notin DOMAIN h
    IN  [heap |-> [x \in DOMAIN h \cup {r} |-> IF x = r THEN h[src] ELSE h[x]],
         ref  |-> r]

\* get_activated_modules(), called; the caller keeps the returned set
get_activated_modules ==
    LET out == set_copy(heap, ActivatedRef)
    IN  /\ Cardinality(held) < MaxSnapshots
        /\ heap' = out.heap
        /\ held' = held \cup {out.ref}
        /\ last' = [op |-> "get_activated_modules", arg |-> NoName, result |-> "set",
                    ref |-> out.ref, ext |-> <<>>, env |-> NoEnv]
        /\ pre' = Pre
        /\ UNCHANGED <<_accelerator, accels, hist, demo, threads, race, lifecycle>>

\* the caller adds a name to a set it got from get_activated_modules
ReturnedSetAdd(r, name) ==
    /\ r \in held
    /\ heap' = [heap EXCEPT ![r] = @ \cup {name}]
    /\ last' = [op |-> "set.add", arg |-> name, result |-> "none", ref |-> r, ext |-> <<>>,
                env |-> NoEnv]
    /\ pre' = Pre
    /\ UNCHANGED <<_accelerator, accels, held, hist, demo, threads, race, lifecycle>>

\* the caller removes a name from a set it got from get_activated_modules
ReturnedSetDiscard(r, name) ==
    /\ r \in held
    /\ heap' = [heap EXCEPT ![r] = @ \ {name}]
    /\ last' = [op |-> "set.discard", arg |-> name, result |-> "none", ref |-> r, ext |-> <<>>,
                env |-> NoEnv]
    /\ pre' = Pre
    /\ UNCHANGED <<_accelerator, accels, held, hist, demo, threads, race, lifecycle>>

Query == \E m \in ModuleNames : IsModuleAccelerated(m)

MutateReturned ==
    \E r \in held, m \in ModuleNames : ReturnedSetAdd(r, m) \/ ReturnedSetDiscard(r, m)

Next ==
    \/ Activate
    \/ Query
    \/ get_activated_modules
    \/ MutateReturned

Spec == Init /\ [][Next]_vars

\* sequential calls with each module name's outcomes kept
NextLifecycle ==
    \/ ActivateTracked
    \/ Query

SpecLifecycle == Init /\ [][NextLifecycle]_vars

(***************************************************************************)
(* Concurrent callers: activate_cuml_accel_for_module statement by         *)
(* statement, with no lock around the module globals.  Each step is one    *)
(* statement (or one external call) of one thread.                         *)
(***************************************************************************)
\* the Accelerator objects something still refers to: a value of _accelerator
\* or a thread's local variable `accelerator`
Collect(objs, accelerator, thr) ==
    LET refs == {accelerator[n] : n \in DOMAIN accelerator}
                    \cup {thr[t].accelerator : t \in Threads}
    IN  [o \in DOMAIN objs \cap refs |-> objs[o]]

\* the call of thread t returns (or raises): its locals are dropped
Returned(t, result) ==
    [threads EXCEPT ![t].pc = "returned", ![t].result = result, ![t].accelerator = 0]

SharedUnchanged == UNCHANGED <<held, last, pre, hist, demo, lifecycle>>

\* thread t calls activate_cuml_accel_for_module(module_name)
T_Call(t, module_name) ==
    /\ threads[t].pc \in {"idle", "returned"}
    /\ threads[t].calls < MaxThreadCalls
    /\ threads' = [threads EXCEPT ![t] =
                      [pc |-> "line79", module_name |-> module_name, accelerator |-> 0,
                       result |-> "none", calls |-> threads[t].calls + 1,
                       passed |-> FALSE]]
    /\ UNCHANGED <<heap, _accelerator, accels, race>>
    /\ SharedUnchanged

\* if module_name in _activated_modules: return True
T_Line79(t) ==
    /\ threads[t].pc = "line79"
    /\ threads' = IF AlreadyActive(threads[t].module_name, _activated_modules)
                  THEN Returned(t, "True")
                  ELSE [threads EXCEPT ![t].pc = "line84", ![t].passed = TRUE]
    /\ UNCHANGED <<heap, _accelerator, accels, race>>
    /\ SharedUnchanged

\* if not is_cuml_accel_available(): return False
T_Line84(t, outcome) ==
    LET avail == is_cuml_accel_available(outcome)
    IN  /\ threads[t].pc = "line84"
        /\ threads' = CASE avail = "True" -> [threads EXCEPT ![t].pc = "line90"]
                        [] avail = "False" -> Returned(t, "False")
                        [] OTHER -> Returned(t, "raise")
        /\ UNCHANGED <<heap, _accelerator, accels, race>>
        /\ SharedUnchanged

\* the imports of Accelerator and _exclude_from_acceleration
T_Line90(t, outcome) ==
    /\ threads[t].pc = "line90"
    /\ threads' = IF outcome = "ok" THEN [threads EXCEPT ![t].pc = "line94"]
                  ELSE Returned(t, "False")
    /\ UNCHANGED <<heap, _accelerator, accels, race>>
    /\ SharedUnchanged

\* accelerator = Accelerator(exclude=_exclude_from_acceleration)
T_Line94(t, outcome) ==
    LET h == NewHandle(accels)
    IN  /\ threads[t].pc = "line94"
        /\ IF outcome = "ok"
           THEN /\ threads' = [threads EXCEPT ![t].pc = "line102", ![t].accelerator = h]
                /\ accels' = [o \in DOMAIN accels \cup {h} |->
                                 IF o = h THEN [registered |-> {}, installed |-> FALSE]
                                 ELSE accels[o]]
           ELSE /\ threads' = Returned(t, "False")
                /\ UNCHANGED accels
        /\ UNCHANGED <<heap, _accelerator, race>>
        /\ SharedUnchanged

\* wrapper_module = ...; accelerator.register(module_name, wrapper_module)
T_Line102(t, outcome) ==
    LET m == threads[t].module_name
        h == threads[t].accelerator
        thr == IF outcome = "ok" THEN [threads EXCEPT ![t].pc = "line103"]
               ELSE Returned(t, "False")
    IN  /\ threads[t].pc = "line102"
        /\ threads' = thr
        /\ accels' = Collect(IF outcome = "ok"
                             THEN [accels EXCEPT ![h].registered =
                                      @ \cup {<<m, wrapper_module(m)>>}]
                             ELSE accels,
                             _accelerator, thr)
        /\ race' = [race EXCEPT !.registers[m] = @ + 1]
        /\ UNCHANGED <<heap, _accelerator>>
        /\ SharedUnchanged

\* accelerator.install()
T_Line103(t, outcome) ==
    LET h == threads[t].accelerator
        thr == IF outcome = "ok" THEN [threads EXCEPT ![t].pc = "line106"]
               ELSE Returned(t, "False")
    IN  /\ threads[t].pc = "line103"
        /\ threads' = thr
        /\ accels' = Collect(IF outcome = "ok"
                             THEN [accels EXCEPT ![h].installed = TRUE]
                             ELSE accels,
                             _accelerator, thr)
        /\ UNCHANGED <<heap, _accelerator, race>>
        /\ SharedUnchanged

\* the order of the two statements that record an activation:
\* _accelerator[module_name] = accelerator, then _activated_modules.add(module_name)
RecordStatementsSwapped == <<"name", "handle">>

RecordStatements == <<"handle", "name">>

\* one of the two recording statements, run by thread t
RecordStatement(t, statement, thr) ==
    LET m == threads[t].module_name
        h == threads[t].accelerator
        acc == IF statement = "handle" THEN DictSet(_accelerator, m, h) ELSE _accelerator
    IN  /\ threads' = thr
        /\ _accelerator' = acc
        /\ heap' = IF statement = "name"
                   THEN [heap EXCEPT ![ActivatedRef] = @ \cup {m}] ELSE heap
        /\ race' = IF statement = "handle"
                   THEN [race EXCEPT !.writes[m] = Append(@, h)] ELSE race
        /\ accels' = Collect(accels, acc, thr)
        /\ SharedUnchanged

\* _accelerator[module_name] = accelerator
T_Line106(t) ==
    /\ threads[t].pc = "line106"
    /\ RecordStatement(t, RecordStatements[1], [threads EXCEPT ![t].pc = "line107"])

\* _activated_modules.add(module_name); return True
T_Line107(t) ==
    /\ threads[t].pc = "line107"
    /\ RecordStatement(t, RecordStatements[2], Returned(t, "True"))

NextThreads ==
    \/ \E t \in Threads, m \in ModuleNames : T_Call(t, m)
    \/ \E t \in Threads : T_Line79(t)
    \/ \E t \in Threads, o \in AccelImportOutcomes : T_Line84(t, o)
    \/ \E t \in Threads, o \in CallOutcomes : T_Line90(t, o)
    \/ \E t \in Threads, o \in CallOutcomes : T_Line94(t, o)
    \/ \E t \in Threads, o \in CallOutcomes : T_Line102(t, o)
    \/ \E t \in Threads, o \in CallOutcomes : T_Line103(t, o)
    \/ \E t \in Threads : T_Line106(t)
    \/ \E t \in Threads : T_Line107(t)

SpecThreads == Init /\ [][NextThreads]_vars

(***************************************************************************)
(* The demo command                                                        *)
(***************************************************************************)
\* the model codes given on the command line or to _run_autogluon_demo
DemoModels == {"rf", "knn", "lr", "xgb", "RF"}

\* click.Choice(["rf", "knn", "lr"])
Choice == {"rf", "knn", "lr"}

DemoCall(call, key, num_gpus) == [call |-> call, key |-> key, num_gpus |-> num_gpus]

\* the hyperparameters key of the match statement's case for a model code,
\* "none" for the default case
HyperparametersKeyPasted(model) ==
    CASE model = "rf" -> "RF"
      [] model = "knn" -> "RF"
      [] model = "lr" -> "LR"
      [] OTHER -> "none"

HyperparametersKey(model) ==
    CASE model = "rf" -> "RF"
      [] model = "knn" -> "KNN"
      [] model = "lr" -> "LR"
      [] OTHER -> "none"

\* leaving main: the profile context, when entered, is exited
Leave(d, outcome) ==
    [d EXCEPT !.pc = "done", !.outcome = outcome,
              !.calls = IF d.profiling
                        THEN @ \o <<DemoCall("profile.exit", "none", 0)>> ELSE @]

\* the command is run: click parses the arguments and calls main, or rejects
\* a model outside the Choice
main(model, num_gpus, profile) ==
    /\ demo.pc = "idle"
    /\ demo' = IF model \in Choice
               THEN [demo EXCEPT !.pc = "main", !.entry = "main", !.model = model,
                                 !.num_gpus = num_gpus, !.profile = profile]
               ELSE [demo EXCEPT !.pc = "done", !.entry = "main", !.model = model,
                                 !.num_gpus = num_gpus, !.profile = profile,
                                 !.outcome = "UsageError"]
    /\ UNCHANGED <<heap, _accelerator, accels, held, last, pre, hist, threads, race, lifecycle>>

\* the body of main up to the call of _run_autogluon_demo
MainBody(cuml) ==
    /\ demo.pc = "main"
    /\ demo' = IF ~demo.profile THEN [demo EXCEPT !.pc = "run"]
               ELSE IF cuml = "ok"
               THEN [demo EXCEPT !.pc = "run", !.profiling = TRUE,
                                 !.calls = @ \o <<DemoCall("profile.enter", "none", 0)>>]
               ELSE [demo EXCEPT !.pc = "done", !.outcome = cuml]
    /\ UNCHANGED <<heap, _accelerator, accels, held, last, pre, hist, threads, race, lifecycle>>

\* _run_autogluon_demo is called directly
_run_autogluon_demo(model, num_gpus) ==
    /\ demo.pc = "idle"
    /\ demo' = [demo EXCEPT !.pc = "run", !.entry = "direct", !.model = model,
                            !.num_gpus = num_gpus]
    /\ UNCHANGED <<heap, _accelerator, accels, held, last, pre, hist, threads, race, lifecycle>>

\* _run_autogluon_demo: the test dataset is created
RunDataset ==
    /\ demo.pc = "run"
    /\ demo' = [demo EXCEPT !.pc = "match", !.entered = TRUE,
                            !.calls = @ \o <<DemoCall("make_classification", "none", 0)>>]
    /\ UNCHANGED <<heap, _accelerator, accels, held, last, pre, hist, threads, race, lifecycle>>

\* _run_autogluon_demo: the match statement
RunMatch(fit) ==
    LET key == HyperparametersKey(demo.model)
        called == [demo EXCEPT !.calls = @ \o <<DemoCall("fit", key, demo.num_gpus)>>]
    IN  /\ demo.pc = "match"
        /\ demo' = IF key = "none" THEN Leave(demo, "ValueError")
                   ELSE IF fit = "ok" THEN [called EXCEPT !.pc = "leaderboard"]
                   ELSE Leave(called, fit)
        /\ UNCHANGED <<heap, _accelerator, accels, held, last, pre, hist, threads, race, lifecycle>>

\* _run_autogluon_demo: the leaderboard call and the closing print
RunLeaderboard ==
    /\ demo.pc = "leaderboard"
    /\ demo' = Leave([demo EXCEPT !.calls = @ \o <<DemoCall("leaderboard", "none", 0)>>], "ok")
    /\ UNCHANGED <<heap, _accelerator, accels, held, last, pre, hist, threads, race, lifecycle>>

NextDemo ==
    \/ \E m \in DemoModels, g \in 0..MaxGpus, p \in BOOLEAN : main(m, g, p)
    \/ \E c \in {"ok", "ImportError"} : MainBody(c)
    \/ \E m \in DemoModels, g \in 0..MaxGpus : _run_autogluon_demo(m, g)
    \/ RunDataset
    \/ \E f \in CallOutcomes : RunMatch(f)
    \/ RunLeaderboard

SpecDemo == Init /\ [][NextDemo]_vars

(***************************************************************************)
(* Properties                                                              *)
(***************************************************************************)
Activated(h) == h[ActivatedRef]

RegistryUnchanged ==
    /\ _activated_modules = Activated(pre.heap)
    /\ _accelerator = pre.accelerator

\* the most recent call invoked the external entry point `call`
Invoked(call) == \E i \in DOMAIN last.ext : last.ext[i].call = call

\* the most recent call invoked `call` and the library raised in it
Raised(call, outcome) == Invoked(call) /\ outcome # "ok"

\* C1 as stated: a call of activate_cuml_accel_for_module for a name that was
\* passed to an earlier call, whatever that call returned, returns True and
\* invokes no external construction, register or install.
C1_SecondCallAlwaysTrue ==
    (last.op = "activate" /\ last.arg \in pre.called)
        => (last.result = "True" /\ last.ext = <<>>)

\* C1 amended: a call of activate_cuml_accel_for_module for a name for which
\* an earlier call returned True returns True, invokes no external
\* construction, register or install, and leaves the registry as it was.
C1_SecondCallAfterTrue ==
    (last.op = "activate" /\ last.arg \in pre.returnedTrue)
        => (last.result = "True" /\ last.ext = <<>> /\ RegistryUnchanged)

C1_Witness ==
    /\ last.op = "activate"
    /\ last.arg \in pre.returnedTrue
    /\ last.env.accel_import = "ok"
    /\ last.result = "True"

\* the library cannot be imported during the most recent call:
\* is_cuml_accel_available would return False
Unavailable == last.op = "activate" /\ last.env.accel_import = "ImportError"

\* C2 as stated: when the library cannot be imported,
\* activate_cuml_accel_for_module returns False for every module name in every
\* registry state, and leaves _activated_modules and _accelerator unchanged.
C2_UnavailableAlwaysFalse ==
    Unavailable => (last.result = "False" /\ RegistryUnchanged)

\* C2 amended: when the library cannot be imported,
\* activate_cuml_accel_for_module leaves _activated_modules and _accelerator
\* unchanged, invokes nothing of the library, and returns False for every
\* module name that is not already activated; for a name already activated it
\* returns True.
C2_UnavailableKeepsRegistry ==
    Unavailable =>
        /\ RegistryUnchanged
        /\ last.ext = <<>>
        /\ last.result = IF last.arg \in Activated(pre.heap) THEN "True" ELSE "False"

C2_Witness ==
    /\ Unavailable
    /\ last.result = "False"
    /\ Activated(pre.heap) # {}

\* C3: if the library raises during Accelerator construction, register or
\* install inside activate_cuml_accel_for_module, the call returns False and
\* _activated_modules and _accelerator are as before the call; when all three
\* complete, the name is added to _activated_modules and the handle of the
\* Accelerator constructed by the call is stored under it in _accelerator.
C3_RaiseKeepsRegistrySuccessRecords ==
    last.op = "activate" =>
        /\ ( \/ Raised("Accelerator", last.env.construct)
             \/ Raised("register", last.env.register)
             \/ Raised("install", last.env.install) )
           => (last.result = "False" /\ RegistryUnchanged)
        /\ ( Invoked("install") /\ last.env.install = "ok" )
           => /\ last.result = "True"
              /\ last.arg \notin Activated(pre.heap)
              /\ _activated_modules = Activated(pre.heap) \cup {last.arg}
              /\ DOMAIN _accelerator = DOMAIN pre.accelerator \cup {last.arg}
              /\ _accelerator[last.arg] = last.ext[1].handle
              /\ last.ext[1].call = "Accelerator"
              /\ \A n \in DOMAIN pre.accelerator : _accelerator[n] = pre.accelerator[n]

C3_Witness ==
    /\ last.op = "activate"
    /\ Raised("install", last.env.install)
    /\ last.result = "False"
    /\ Activated(pre.heap) # {}

\* C4: no failure during the accelerator setup propagates to the caller of
\* activate_cuml_accel_for_module: whatever fails in the availability import,
\* the component imports, construction, register or install, the call returns
\* True or False.
C4_NeverPropagates ==
    last.op = "activate" => last.result \in {"True", "False"}

C6_WrapperIsPrefixed ==
    \A i \in DOMAIN last.ext :
        (last.ext[i].call = "register" /\ FirstComponent(Chars(last.ext[i].module)) = sklearn)
            => last.ext[i].wrapper = cuml_accel_wrappers \o Chars(last.ext[i].module)

\* C7: in every state reached by sequential calls, a module name is in
\* _activated_modules exactly when an earlier activate_cuml_accel_for_module
\* call for it returned True with register and install completing; and no call
\* other than an activation that returns True adds a name to the set.
C7_ActivatedIffInstalled ==
    /\ _activated_modules = hist.installed
    /\ (last.op = "activate" /\ last.result = "True")
         \/ _activated_modules \subseteq Activated(pre.heap)
    /\ _activated_modules \subseteq Activated(pre.heap) \cup {last.arg}

C7_Witness ==
    /\ Cardinality(_activated_modules) = 2
    /\ \E n \in hist.called : n \notin _activated_modules
    /\ last.op = "activate"
    /\ last.result = "False"
    /\ Invoked("install")

\* the fit and leaderboard calls the demo has made, in order
PredictorCalls == SelectSeq(demo.calls, LAMBDA c : c.call \in {"fit", "leaderboard"})

\* the hyperparameters key the demo is to use for a model code
ExpectedKey ==
    CASE demo.model = "rf" -> "RF"
      [] demo.model = "knn" -> "KNN"
      [] demo.model = "lr" -> "LR"
      [] OTHER -> "unsupported"

ExpectedFit == DemoCall("fit", ExpectedKey, demo.num_gpus)

\* C8 as stated: in the demo, an unsupported model code ends in a ValueError
\* with no fit or leaderboard call made, and "rf", "knn" or "lr" makes exactly
\* one fit call with the key "RF", "KNN" or "LR" and the given num_gpus,
\* followed by the leaderboard call.
C8_DemoDispatch ==
    demo.pc = "done" =>
        /\ demo.model \notin Choice
             => (demo.outcome = "ValueError" /\ PredictorCalls = <<>>)
        /\ demo.model \in Choice
             => PredictorCalls = <<ExpectedFit, DemoCall("leaderboard", "none", 0)>>

\* C8 amended: _run_autogluon_demo, once entered, raises ValueError for an
\* unsupported model code before any fit or leaderboard call, and for "rf",
\* "knn" or "lr" makes exactly one fit call with the key "RF", "KNN" or "LR"
\* and the given num_gpus, followed by the leaderboard call when fit returns.
\* Run through the command main, an unsupported code is rejected by the
\* argument's Choice with a usage error and _run_autogluon_demo is not
\* entered; nor is it entered when --profile is given and cuml.accel cannot
\* be imported.
C8_RunDemoDispatch ==
    /\ demo.outcome = "ValueError" => PredictorCalls = <<>>
    /\ (demo.pc = "done" /\ demo.entered) =>
          /\ demo.model \notin Choice => demo.outcome = "ValueError"
          /\ demo.model \in Choice =>
                /\ demo.outcome # "ValueError"
                /\ demo.outcome = "ok"
                     => PredictorCalls = <<ExpectedFit, DemoCall("leaderboard", "none", 0)>>
                /\ demo.outcome # "ok" => PredictorCalls = <<ExpectedFit>>
    /\ (demo.pc = "done" /\ ~demo.entered) =>
          /\ demo.entry = "main"
          /\ demo.calls = <<>>
          /\ \/ demo.model \notin Choice /\ demo.outcome = "UsageError"
             \/ demo.model \in Choice /\ demo.profile /\ demo.outcome = "ImportError"
    /\ (demo.entry = "main" /\ demo.model \notin Choice)
          => (demo.pc = "done" /\ ~demo.entered /\ demo.outcome = "UsageError")

C8_Witness ==
    /\ demo.pc = "done"
    /\ demo.entry = "direct"
    /\ demo.model = "xgb"
    /\ demo.outcome = "ValueError"
    /\ demo.num_gpus = 1

\* C9: _activated_modules and _accelerator start empty and only grow: no call
\* removes a name from _activated_modules or removes or rebinds an entry of
\* _accelerator, so a module for which is_module_accelerated was True stays
\* accelerated.
C9_Monotone ==
    /\ last.op = "init" => (_activated_modules = {} /\ DOMAIN _accelerator = {})
    /\ Activated(pre.heap) \subseteq _activated_modules
    /\ \A n \in DOMAIN pre.accelerator :
          n \in DOMAIN _accelerator /\ _accelerator[n] = pre.accelerator[n]
    /\ hist.returnedTrue \subseteq _activated_modules

C9_Witness ==
    /\ last.op = "set.discard"
    /\ last.arg \in _activated_modules
    /\ last.arg \notin heap[last.ref]
    /\ Cardinality(_activated_modules) = 2

Last(seq) == seq[Len(seq)]

\* C11: with no lock, two threads that call activate_cuml_accel_for_module for
\* the same not yet active name can both pass the membership check; register
\* and install are then invoked once by each of them, every write of line 106
\* follows a register call of its own, each thread writes a name's handle at
\* most once, and after each write the table holds the handle written last, so
\* the later writer's handle replaces the earlier.
C11_LastWriterWins ==
    \A m \in ModuleNames :
        /\ Len(race.writes[m]) <= race.registers[m]
        /\ race.writes[m] # <<>> =>
              (m \in DOMAIN _accelerator /\ _accelerator[m] = Last(race.writes[m]))
        /\ Len(race.writes[m]) <= Cardinality(Threads)
        /\ Len(race.writes[m]) >= 1 =>
              \/ m \in _activated_modules
              \/ \E t \in Threads : threads[t].pc = "line107" /\ threads[t].module_name = m

\* both threads passed the membership check for the same name, register was
\* invoked twice, both wrote their handle and the second write replaced the first
C11_Witness ==
    \E m \in ModuleNames :
        /\ \A t \in Threads :
              /\ threads[t].module_name = m
              /\ threads[t].passed
              /\ threads[t].pc = "returned"
              /\ threads[t].result = "True"
        /\ race.registers[m] = 2
        /\ Len(race.writes[m]) = 2
        /\ race.writes[m][1] # race.writes[m][2]
        /\ _accelerator[m] = race.writes[m][2]
        /\ race.writes[m][1] \notin DOMAIN accels

\* C13: is_module_accelerated and get_activated_modules are reads: they leave
\* _activated_modules and _accelerator unchanged and invoke nothing of the
\* library, and is_module_accelerated(m) is True exactly when m is in the set
\* get_activated_modules returns.
C13_QueriesArePureReads ==
    /\ last.op \in {"is_module_accelerated", "get_activated_modules"} =>
          /\ RegistryUnchanged
          /\ last.ext = <<>>
          /\ hist.called = pre.called
    /\ last.op = "is_module_accelerated" =>
          (last.result = "True" <=> last.arg \in Activated(pre.heap))
    /\ last.op = "get_activated_modules" =>
          /\ heap[last.ref] = Activated(pre.heap)
          /\ \A m \in ModuleNames : is_module_accelerated(m) <=> m \in heap[last.ref]

C13_Witness ==
    /\ last.op = "get_activated_modules"
    /\ Cardinality(heap[last.ref]) = 1
    /\ \E m \in ModuleNames : ~is_module_accelerated(m) /\ m \in hist.called

\* the handles stored in a handle table
Handles(accelerator) == {accelerator[n] : n \in DOMAIN accelerator}

\* C14: a call activate_cuml_accel_for_module(m), whatever its outcome, leaves
\* the membership and the stored handle of every other module name unchanged,
\* and a module that becomes active gets the handle of the Accelerator
\* constructed by that call, which no other module holds.
C14_FramesOtherModules ==
    /\ last.op = "activate" =>
          \A n \in ModuleNames \ {last.arg} :
              /\ n \in _activated_modules <=> n \in Activated(pre.heap)
              /\ n \in DOMAIN _accelerator <=> n \in DOMAIN pre.accelerator
              /\ n \in DOMAIN _accelerator => _accelerator[n] = pre.accelerator[n]
    /\ (last.op = "activate" /\ last.arg \notin Activated(pre.heap)
            /\ last.arg \in _activated_modules) =>
          /\ last.ext # <<>>
          /\ last.ext[1].call = "Accelerator"
          /\ _accelerator[last.arg] = last.ext[1].handle
          /\ _accelerator[last.arg] \notin Handles(pre.accelerator)
    /\ \A n1, n2 \in DOMAIN _accelerator : n1 # n2 => _accelerator[n1] # _accelerator[n2]
    /\ Handles(_accelerator) = DOMAIN accels

C14_Witness ==
    /\ last.op = "activate"
    /\ last.result = "True"
    /\ last.ext # <<>>
    /\ Cardinality(DOMAIN pre.accelerator) = 1
    /\ Cardinality(DOMAIN _accelerator) = 2

\* C15: in every state, the states inside an activation in progress and the
\* interleavings of two threads included, every member of _activated_modules
\* has a handle in _accelerator, and register (for that module and its wrapper)
\* and install completed on that handle's Accelerator.
C15_ActiveHasInstalledHandle ==
    \A m \in _activated_modules :
        /\ m \in DOMAIN _accelerator
        /\ _accelerator[m] \in DOMAIN accels
        /\ accels[_accelerator[m]].installed
        /\ <<m, wrapper_module(m)>> \in accels[_accelerator[m]].registered

\* a thread is between its two recording statements for a name that another
\* thread has already made active, having replaced that thread's handle
C15_Witness ==
    \E t \in Threads :
        /\ threads[t].pc = "line107"
        /\ threads[t].module_name \in _activated_modules
        /\ _accelerator[threads[t].module_name] = threads[t].accelerator
        /\ Len(race.writes[threads[t].module_name]) = 2

\* C12: per module name the states are unchecked, checked-unavailable,
\* checked-failed and checked-active.  Only checked-active is recorded: it is
\* the state of exactly the names in _activated_modules, and no call leaves it.
\* An unavailable or failed outcome is not kept: a later call for the name
\* consults the library again, and its outcome depends on what the library
\* does in that call alone, so it can end checked-active.  (A call in which the
\* availability import raises returns nothing and leaves the state as it was.)
C12_OnlyActiveIsKept ==
    \A m \in ModuleNames :
        /\ lifecycle[m] \in {"unchecked", "checked-unavailable", "checked-failed",
                             "checked-active"}
        /\ lifecycle[m] = "checked-active" <=> m \in _activated_modules
        /\ pre.lifecycle[m] = "checked-active" => lifecycle[m] = "checked-active"
        /\ (last.op = "activate" /\ last.arg # m) => lifecycle[m] = pre.lifecycle[m]
        /\ (last.op = "activate" /\ last.arg = m) =>
              /\ pre.lifecycle[m] = "checked-active"
                   => (last.result = "True" /\ last.ext = <<>>)
              /\ pre.lifecycle[m] # "checked-active" =>
                   /\ last.env.accel_import = "ImportError"
                        => (lifecycle[m] = "checked-unavailable" /\ last.ext = <<>>)
                   /\ last.env.accel_import = "Exception"
                        => (lifecycle[m] = pre.lifecycle[m] /\ last.result = "raise")
                   /\ (last.env.accel_import = "ok" /\ last.env.imports = "ok")
                        => Invoked("Accelerator")
                   /\ (\A f \in DOMAIN last.env : last.env[f] = "ok")
                        => /\ lifecycle[m] = "checked-active"
                           /\ Invoked("register")
                           /\ Invoked("install")
                   /\ (last.env.accel_import = "ok"
                          /\ \E f \in DOMAIN last.env : last.env[f] # "ok")
                        => lifecycle[m] = "checked-failed"

\* a name whose activation had failed is activated by a later call
C12_Witness ==
    /\ last.op = "activate"
    /\ pre.lifecycle[last.arg] = "checked-failed"
    /\ lifecycle[last.arg] = "checked-active"
    /\ \E m \in ModuleNames : lifecycle[m] = "checked-unavailable"


====
